---- MODULE Spec2Model ----
(***************************************************************************)
(* Model of the flam command-line client (src/flam.js): the credential     *)
(* store (saveApiKey / loadApiKey over ~/.flamconfig.json), and the four   *)
(* command handlers login, publish, search and install.  Each handler is   *)
(* an async function; the model has one action per segment of a handler    *)
(* between two awaits, and one action per event of the streams and file    *)
(* operations the handler waits on.                                        *)
(***************************************************************************)
EXTENDS Naturals, Sequences, FiniteSets, TLC

VARIABLES
    pc,          \* position of the running handler ("idle" before the first)
    cmd,         \* command of the current invocation
    arg,         \* its positional argument (package name, query, file path)
    invocations, \* number of invocations started so far
    out,         \* messages printed by the current invocation, in order
    requests,    \* HTTP requests sent by the current invocation, in order
    escaped,     \* TRUE iff an error left the handler uncaught
    failedAt,    \* step at which the current invocation failed ("" if none)
    err,         \* the error object caught by the handler's catch block
    snap,        \* persistent state (config, dir, files) at invocation start
    configFile,  \* ~/.flamconfig.json
    savepc,      \* position inside fse.writeJson(CONFIG_PATH, ...)
    wbuf,        \* characters writeJson still has to write
    manifest,    \* ./package.json
    dirExists,   \* whether ./flam_modules exists
    files,       \* files of ./flam_modules, by <<name, version text>>
    token,       \* login: const token
    apiKey,      \* login / publish: const apiKey
    loaded,      \* completion of the last loadApiKey() call
    pkg,         \* publish: packageName, version, description
    reads,       \* local files the invocation has opened for reading
    script,      \* the script of the repository that runs as flam
    res,         \* search: res.data of the search response
    version,     \* install: const { version }
    stream,      \* install: response.data, the download body stream
    writer       \* install: the write stream and its target path

vars == <<pc, cmd, arg, invocations, out, requests, escaped, failedAt, err,
          snap, configFile, savepc, wbuf, manifest, dirExists, files, token,
          apiKey, loaded, pkg, reads, script, res, version, stream, writer>>

(***************************************************************************)
(* Bounds of the model.                                                     *)
(***************************************************************************)
MaxInvocations == 2
MaxKeyLen == 2
MaxChunks == 2
MaxResults == 2

(***************************************************************************)
(* The repository holds the client in several scripts.  src/flam.js is the *)
(* ES-module client; part_001 has the same handlers and the same transport *)
(* in CommonJS and behaves as flam.js does; part_000 adds a process-wide   *)
(* DNS result order; part_002 sends its requests through its own axios     *)
(* instance and reads the manifest differently (line 73).  One of them is  *)
(* installed as the flam command.                                           *)
(***************************************************************************)
Scripts == {"flam.js", "part_000", "part_002"}

(***************************************************************************)
(* JavaScript values that flow through the handlers: strings (sequences of *)
(* one-character strings), undefined and null.                              *)
(***************************************************************************)
Str(s) == [t |-> "str", s |-> s]
Undefined == [t |-> "undef", s |-> <<>>]
Null == [t |-> "null", s |-> <<>>]

\* Mutant of Truthy: the guard written `apiKey === null`.
TruthyNotNull(v) == v.t # "null"

\* !v is false exactly for a non-empty string (src/flam.js:73, `!apiKey`).
Truthy(v) == v.t = "str" /\ v.s # <<>>

DQ == "\""
BS == "\\"
KeyChars == {"a", DQ, BS}

RECURSIVE SeqsUpTo(_, _)
SeqsUpTo(S, n) ==
    IF n = 0 THEN {<<>>}
    ELSE LET shorter == SeqsUpTo(S, n - 1)
         IN  shorter \cup {Append(s, c) : s \in shorter, c \in S}

AllKeys == SeqsUpTo(KeyChars, MaxKeyLen)

(***************************************************************************)
(* JSON text, as jsonfile writes and reads it.                              *)
(***************************************************************************)
\* Mutant of Escape: the backslash is written unescaped.
RECURSIVE EscapeQuotesOnly(_)
EscapeQuotesOnly(s) ==
    IF s = <<>> THEN <<>>
    ELSE (IF Head(s) = DQ THEN <<BS, DQ>> ELSE <<Head(s)>>)
         \o EscapeQuotesOnly(Tail(s))

\* JSON.stringify's escaping of the characters of a string.
RECURSIVE Escape(_)
Escape(s) ==
    IF s = <<>> THEN <<>>
    ELSE (IF Head(s) \in {DQ, BS} THEN <<BS, Head(s)>> ELSE <<Head(s)>>)
         \o Escape(Tail(s))

Quote(s) == <<DQ>> \o Escape(s) \o <<DQ>>

ApiKeyField == <<"{", DQ, "a", "p", "i", "K", "e", "y", DQ, ":">>

\* JSON.stringify({ apiKey: key }) followed by jsonfile's end-of-line.
StringifyConfig(key) ==
    IF key.t = "undef" THEN <<"{", "}", "\n">>
    ELSE IF key.t = "null" THEN ApiKeyField \o <<"n", "u", "l", "l", "}", "\n">>
    ELSE ApiKeyField \o Quote(key.s) \o <<"}", "\n">>

\* Reads a JSON string literal starting at the opening quote s[i]:
\* [ok, str, next] with next the index after the closing quote.
RECURSIVE ScanString(_, _, _)
ScanString(s, i, acc) ==
    IF i > Len(s) THEN [ok |-> FALSE, str |-> <<>>, next |-> i]
    ELSE IF s[i] = DQ THEN [ok |-> TRUE, str |-> acc, next |-> i + 1]
    ELSE IF s[i] = BS
         THEN IF i + 1 <= Len(s) /\ s[i + 1] \in {DQ, BS}
              THEN ScanString(s, i + 2, Append(acc, s[i + 1]))
              ELSE [ok |-> FALSE, str |-> <<>>, next |-> i]
    ELSE IF s[i] = "\n" THEN [ok |-> FALSE, str |-> <<>>, next |-> i]
    ELSE ScanString(s, i + 1, Append(acc, s[i]))

ParseString(s, i) ==
    IF i <= Len(s) /\ s[i] = DQ THEN ScanString(s, i + 1, <<>>)
    ELSE [ok |-> FALSE, str |-> <<>>, next |-> i]

StartsWith(s, p) == Len(s) >= Len(p) /\ SubSeq(s, 1, Len(p)) = p

\* Trailing white space is insignificant to JSON.parse.
RECURSIVE TrimEnd(_)
TrimEnd(s) ==
    IF s # <<>> /\ s[Len(s)] = "\n" THEN TrimEnd(SubSeq(s, 1, Len(s) - 1))
    ELSE s

\* JSON.parse on the texts a configuration file holds here: null, {},
\* {"apiKey":null}, {"apiKey":"..."}; every other text is a SyntaxError.
\* Result: threw, or the parsed value as [isNull, apiKey].
JsonThrow == [threw |-> TRUE, isNull |-> FALSE, apiKey |-> Undefined]
JsonObj(k) == [threw |-> FALSE, isNull |-> FALSE, apiKey |-> k]
JsonNull == [threw |-> FALSE, isNull |-> TRUE, apiKey |-> Undefined]

JsonParse(text) ==
    LET s == TrimEnd(text)
        n == Len(ApiKeyField)
    IN  IF s = <<"n", "u", "l", "l">> THEN JsonNull
        ELSE IF s = <<"{", "}">> THEN JsonObj(Undefined)
        ELSE IF s = ApiKeyField \o <<"n", "u", "l", "l", "}">> THEN JsonObj(Null)
        ELSE IF StartsWith(s, ApiKeyField)
             THEN LET r == ParseString(s, n + 1)
                  IN  IF r.ok /\ r.next = Len(s) /\ s[r.next] = "}"
                      THEN JsonObj(Str(r.str))
                      ELSE JsonThrow
        ELSE JsonThrow

(***************************************************************************)
(* Files.  A path is missing, inaccessible (it cannot be opened, for read  *)
(* or for write), or a file with its content.                              *)
(***************************************************************************)
Missing == [st |-> "missing", data |-> <<>>]
NoAccess == [st |-> "noaccess", data |-> <<>>]
File(d) == [st |-> "file", data |-> d]

\* fse.readJson(path): rejects when the file cannot be read or parsed.
readJson(f) == IF f.st # "file" THEN JsonThrow ELSE JsonParse(f.data)

\* loadApiKey (src/flam.js:25-32): [threw, val].
loadApiKey(f) ==
    LET config == readJson(f)
    IN  IF config.threw THEN [threw |-> FALSE, val |-> Null]
        ELSE IF config.isNull THEN [threw |-> FALSE, val |-> Null]
        ELSE [threw |-> FALSE, val |-> config.apiKey]

(***************************************************************************)
(* Messages, requests and errors.                                           *)
(***************************************************************************)
Msg(ch, kind, text) == [ch |-> ch, kind |-> kind, text |-> text]
\* API_URL (line 14): every request goes to an https URL.
ApiScheme == "https"

\* The axios instance a script sends its requests with: the default
\* instance, `axios`, in flam.js and part_000; `apiClient`, created once with
\* axios.create, in part_002.
Client == IF script = "part_002" THEN "apiClient" ELSE "axios"

\* The order in which the process takes resolved addresses: part_000 sets
\* dns.setDefaultResultOrder('ipv4first') once at start-up; the other
\* scripts leave the default, the order the resolver returns.
DnsOrder == IF script = "part_000" THEN "ipv4first" ELSE "verbatim"

\* The agent a request gets.  apiClient is created from { httpAgent } with
\* an http.Agent of family 4; axios hands httpAgent to requests of http URLs
\* and httpsAgent, which no script sets, to requests of https URLs.
Agent ==
    IF script = "part_002" /\ ApiScheme = "http" THEN "family 4" ELSE "default"

Req(ep, bearer, params) ==
    [ep |-> ep, bearer |-> bearer, params |-> params, client |-> Client,
     dns |-> DnsOrder, agent |-> Agent]

HasMsg(kind) == \E i \in 1..Len(out) : out[i].kind = kind
CountCh(ch) == Cardinality({i \in 1..Len(out) : out[i].ch = ch})

\* An error as the catch blocks see it: whether it carries a response, the
\* response body's error field ("" when the body has none) and its message.
NoError == [response |-> FALSE, error |-> "", message |-> ""]
HttpError(e) ==
    [response |-> TRUE, error |-> e, message |-> "Request failed with status code 500"]
TransportError ==
    [response |-> FALSE, error |-> "", message |-> "connect ECONNREFUSED"]
LocalError(m) == [response |-> FALSE, error |-> "", message |-> m]
TypeError == LocalError("Cannot read properties of null")

ServerErrorText == "registry: request refused"
RequestFailures == {HttpError(ServerErrorText), HttpError(""), TransportError}

\* error.response?.data?.error || error.message  (src/flam.js:63,108,131)
ErrText(e) == IF e.response /\ e.error # "" THEN e.error ELSE e.message

PackageNames == {"foo", "bar"}

\* `Le paquet "${packageName}" n'a pas été trouvé.`  (src/flam.js:168)
NotFoundText(name) ==
    IF name = "foo" THEN "Le paquet \"foo\" n'a pas ete trouve."
    ELSE "Le paquet \"bar\" n'a pas ete trouve."

\* error.response?.data?.error || `Le paquet ...`  (src/flam.js:168)
InstallErrText(e, name) ==
    IF e.response /\ e.error # "" THEN e.error ELSE NotFoundText(name)

(***************************************************************************)
(* Invocations.  One handler runs per process; a new invocation starts     *)
(* when the previous handler has returned or its process has exited.       *)
(***************************************************************************)
NoStream == [chunks |-> <<>>, pos |-> 0, st |-> "none"]
NoWriter == [st |-> "none", path |-> <<>>]
NotLoaded == [called |-> FALSE, threw |-> FALSE, val |-> Undefined]
Completed(r) == [called |-> TRUE, threw |-> r.threw, val |-> r.val]
NoPkg == [name |-> "", version |-> "", description |-> ""]
Snapshot == [config |-> configFile, dir |-> dirExists, files |-> files]

Ready == pc \in {"idle", "done", "exited"} /\ invocations < MaxInvocations

\* Process start up to the handler's first await.
Begin(c, a, firstOut, firstReqs, firstPc) ==
    /\ Ready
    /\ cmd' = c
    /\ arg' = a
    /\ invocations' = invocations + 1
    /\ out' = firstOut
    /\ requests' = firstReqs
    /\ pc' = firstPc
    /\ escaped' = FALSE
    /\ failedAt' = ""
    /\ err' = NoError
    /\ snap' = Snapshot
    /\ savepc' = "idle"
    /\ wbuf' = <<>>
    /\ token' = Undefined
    /\ apiKey' = Undefined
    /\ loaded' = NotLoaded
    /\ pkg' = NoPkg
    /\ reads' = <<>>
    /\ script' = script
    /\ res' = <<>>
    /\ version' = ""
    /\ stream' = NoStream
    /\ writer' = NoWriter
    /\ UNCHANGED <<configFile, dirExists, files>>

diskVars == <<configFile, manifest, dirExists, files>>
storeVars == <<savepc, wbuf>>
installVars == <<version, stream, writer>>
loginVars == <<token, apiKey>>
ctlVars == <<cmd, arg, invocations, snap, escaped>>

\* The handler's catch block: one console.error, then the handler returns.
Caught(step, e, kind, text) ==
    /\ failedAt' = step
    /\ err' = e
    /\ out' = Append(out, Msg("error", kind, text))
    /\ pc' = "done"

(***************************************************************************)
(* saveApiKey (src/flam.js:20-22): fse.writeJson is fs.writeFile of the    *)
(* JSON text: open with flag 'w' (create or truncate), write until the     *)
(* whole text is written, close.                                            *)
(***************************************************************************)
\* The call: the text is built, the open is requested.
saveApiKey(key) ==
    /\ savepc' = "open"
    /\ wbuf' = StringifyConfig(key)

SaveOpen ==
    /\ savepc = "open"
    /\ configFile.st # "noaccess"
    /\ configFile' = File(<<>>)
    /\ savepc' = "write"
    /\ UNCHANGED <<pc, cmd, arg, invocations, out, requests, escaped, failedAt,
                   err, snap, wbuf, manifest, dirExists, files, token, apiKey,
                   loaded, pkg, reads, script, res, version, stream, writer>>

SaveOpenFail ==
    /\ savepc = "open"
    /\ savepc' = "failed"
    /\ err' = LocalError("EACCES: permission denied, open")
    /\ UNCHANGED <<pc, cmd, arg, invocations, out, requests, escaped, failedAt,
                   snap, configFile, wbuf, manifest, dirExists, files, token,
                   apiKey, loaded, pkg, reads, script, res, version, stream, writer>>

\* One write(2): the kernel takes n of the remaining characters.
SaveWrite ==
    /\ savepc = "write"
    /\ \E n \in 1..Len(wbuf) :
         /\ configFile' = File(configFile.data \o SubSeq(wbuf, 1, n))
         /\ wbuf' = SubSeq(wbuf, n + 1, Len(wbuf))
         /\ savepc' = IF n = Len(wbuf) THEN "done" ELSE "write"
    /\ UNCHANGED <<pc, cmd, arg, invocations, out, requests, escaped, failedAt,
                   err, snap, manifest, dirExists, files, token, apiKey,
                   loaded, pkg, reads, script, res, version, stream, writer>>

SaveWriteFail ==
    /\ savepc = "write"
    /\ savepc' = "failed"
    /\ err' = LocalError("ENOSPC: no space left on device, write")
    /\ UNCHANGED <<pc, cmd, arg, invocations, out, requests, escaped, failedAt,
                   snap, configFile, wbuf, manifest, dirExists, files, token,
                   apiKey, loaded, pkg, reads, script, res, version, stream, writer>>

(***************************************************************************)
(* login (src/flam.js:46-65)                                                *)
(***************************************************************************)
Tokens == {Str(<<"j", "w", "t">>)}
ServerKeys == {Str(<<>>), Str(<<"a">>), Str(<<DQ>>)}

\* Mutant of LoginCatch: the catch block also removes the configuration file.
LoginCatchRemovesConfig(step, e) ==
    /\ Caught(step, e, "login_err", ErrText(e))
    /\ configFile' = Missing
    /\ UNCHANGED storeVars

\* Lines 62-64: the catch block of login prints and touches nothing else.
LoginCatch(step, e) ==
    /\ Caught(step, e, "login_err", ErrText(e))
    /\ UNCHANGED <<configFile, storeVars>>

\* Lines 47-50, up to the await of the /auth/login request.
LoginStart ==
    /\ Begin("login", "user", <<Msg("log", "login_try", "")>>,
             <<Req("/auth/login", Undefined, "credentials")>>, "l_login")
    /\ UNCHANGED manifest

\* Lines 50-54: the /auth/login response; on success the /user/api-token
\* request is sent with the token as bearer.
LoginAuthResponse ==
    /\ pc = "l_login"
    /\ \/ \E t \in Tokens \cup {Undefined} :
            /\ token' = t
            /\ requests' = Append(requests, Req("/user/api-token", t, "empty"))
            /\ pc' = "l_token"
            /\ UNCHANGED <<out, failedAt, err>>
            /\ UNCHANGED <<configFile, storeVars>>
       \/ \E e \in RequestFailures \cup {TypeError} :
            /\ LoginCatch("login", e)
            /\ UNCHANGED <<token, requests>>
    /\ UNCHANGED <<ctlVars, manifest, dirExists, files, apiKey, loaded, pkg, reads, script, res,
                   installVars>>

\* Lines 54-60: the /user/api-token response; on success saveApiKey is called.
LoginTokenResponse ==
    /\ pc = "l_token"
    /\ \/ \E k \in ServerKeys \cup {Undefined} :
            /\ apiKey' = k
            /\ saveApiKey(k)
            /\ pc' = "l_save"
            /\ UNCHANGED <<out, failedAt, err, configFile>>
       \/ \E e \in RequestFailures \cup {TypeError} :
            /\ LoginCatch("api-token", e)
            /\ UNCHANGED apiKey
    /\ UNCHANGED <<ctlVars, manifest, dirExists, files, requests, token, loaded,
                   pkg, reads, script, res, installVars>>

\* Mutant of LoginSaved: saveApiKey is called without await, the success
\* line is printed while the save is still under way.
LoginSavedNoAwait ==
    /\ pc = "l_save"
    /\ savepc \in {"open", "write", "done"}
    /\ out' = Append(out, Msg("log", "login_ok", ""))
    /\ pc' = "done"
    /\ UNCHANGED <<ctlVars, diskVars, storeVars, requests, failedAt, err,
                   loginVars, loaded, pkg, reads, script, res, installVars>>

\* Line 61: saveApiKey resolved.
LoginSaved ==
    /\ pc = "l_save"
    /\ savepc = "done"
    /\ out' = Append(out, Msg("log", "login_ok", ""))
    /\ pc' = "done"
    /\ UNCHANGED <<ctlVars, diskVars, storeVars, requests, failedAt, err,
                   loginVars, loaded, pkg, reads, script, res, installVars>>

\* Lines 62-64: saveApiKey rejected.
LoginSaveFailed ==
    /\ pc = "l_save"
    /\ savepc = "failed"
    /\ LoginCatch("save", err)
    /\ UNCHANGED <<ctlVars, manifest, dirExists, files, requests, loginVars,
                   loaded, pkg, reads, script, res, installVars>>

(***************************************************************************)
(* publish (src/flam.js:71-110)                                             *)
(***************************************************************************)
Absent == "(undefined)"
NoManifest == [st |-> "missing", name |-> Absent, version |-> Absent,
               description |-> Absent]
BadManifest == [st |-> "malformed", name |-> Absent, version |-> Absent,
                description |-> Absent]
Manifest(n, v, d) == [st |-> "object", name |-> n, version |-> v,
                      description |-> d]
ManifestStates ==
    {NoManifest, BadManifest, Manifest("foo", "1.2.0", "a package"),
     Manifest("foo", Absent, "a package")}

ArchivePaths == {"pkg.zip"}

\* Line 71: the handler is entered and awaits loadApiKey.  The working
\* directory, and so the package.json in it, is an input of the invocation.
PublishStart ==
    \E f \in ArchivePaths, m \in ManifestStates :
        /\ Begin("publish", f, <<>>, <<>>, "p_load")
        /\ manifest' = m

\* Lines 72-76: the credential guard.
PublishLoadKey ==
    /\ pc = "p_load"
    /\ reads' = Append(reads, "config")
    /\ LET r == loadApiKey(configFile)
       IN  /\ loaded' = Completed(r)
           /\ IF r.threw
              THEN /\ escaped' = TRUE
                   /\ pc' = "done"
                   /\ UNCHANGED <<out, apiKey, failedAt>>
              ELSE IF ~Truthy(r.val)
              THEN /\ out' = Append(out, Msg("error", "not_auth", ""))
                   /\ failedAt' = "credential"
                   /\ pc' = "done"
                   /\ UNCHANGED <<escaped, apiKey>>
              ELSE /\ apiKey' = r.val
                   /\ pc' = "p_manifest"
                   /\ UNCHANGED <<escaped, out, failedAt>>
    /\ UNCHANGED <<cmd, arg, invocations, snap, diskVars, storeVars, requests,
                   err, token, pkg, script, res, installVars>>

PublishRequest(p, key, file) ==
    Req("/packages/publish", key,
        [packageName |-> p.name, version |-> p.version,
         description |-> p.description, package |-> file])

\* pkgJson.name, pkgJson.version, pkgJson.description (lines 82-84)
ManifestFields(m) ==
    [name |-> m.name, version |-> m.version, description |-> m.description]

\* The same assignments in part_002 (line 73): `version = pkgJson.name`.
ManifestFieldsPart002(m) ==
    [name |-> m.name, version |-> m.name, description |-> m.description]

\* Mutant of ManifestReadable: only a missing file is treated as a failure.
ManifestReadableUnlessMissing(m) == m.st # "missing"

\* Lines 80-88: readJson of package.json resolves with an object.
ManifestReadable(m) == m.st = "object"

\* Mutant of ManifestThenArchive: the read stream of the archive is created
\* before package.json is read.
ArchiveThenManifest(opened) == reads \o <<arg, "package.json">>

\* The files the handler opens once the credential guard has passed:
\* package.json (line 81) and, when the fields before it have been appended
\* to the form, the archive (line 97).
ManifestThenArchive(opened) ==
    reads \o <<"package.json">> \o (IF opened THEN <<arg>> ELSE <<>>)

\* Lines 79-99: the manifest is read; on success the form is built and the
\* request is sent.  form.append of an undefined value either throws inside
\* the try block or lets the request go out, depending on the form-data
\* release installed.
PublishReadManifest ==
    /\ pc = "p_manifest"
    /\ IF ~ManifestReadable(manifest)
       THEN /\ out' = Append(out, Msg("error", "manifest_err", ""))
            /\ failedAt' = "manifest"
            /\ pc' = "done"
            /\ reads' = ManifestThenArchive(FALSE)
            /\ UNCHANGED <<pkg, requests, err>>
       ELSE LET p == IF script = "part_002"
                     THEN ManifestFieldsPart002(manifest)
                     ELSE ManifestFields(manifest)
                announced == Append(out, Msg("log", "publish_try", ""))
            IN  /\ pkg' = p
                /\ \/ /\ requests' = Append(requests, PublishRequest(p, apiKey, arg))
                      /\ reads' = ManifestThenArchive(TRUE)
                      /\ out' = announced
                      /\ pc' = "p_post"
                      /\ UNCHANGED <<failedAt, err>>
                   \/ /\ Absent \in {p.name, p.version, p.description}
                      /\ failedAt' = "form"
                      /\ err' = TypeError
                      /\ out' = Append(announced,
                                       Msg("error", "publish_err", ErrText(TypeError)))
                      /\ pc' = "done"
                      /\ reads' = ManifestThenArchive(FALSE)
                      /\ UNCHANGED requests
    /\ UNCHANGED <<ctlVars, diskVars, storeVars, loginVars, loaded, res,
                   script, installVars>>

ServerMessage == "Package published"
ArchiveError == LocalError("ENOENT: no such file or directory, open")

\* Mutant of PublishResponse: a rejected publish request removes the stored
\* key.
PublishResponseForgetsKey ==
    /\ pc = "p_post"
    /\ \/ /\ out' = Append(out, Msg("log", "publish_ok", ServerMessage))
          /\ pc' = "done"
          /\ UNCHANGED <<failedAt, err, configFile>>
       \/ \E e \in RequestFailures \cup {TypeError, ArchiveError} :
            /\ Caught("publish", e, "publish_err", ErrText(e))
            /\ configFile' = Missing
    /\ UNCHANGED <<ctlVars, manifest, dirExists, files, storeVars, requests,
                   loginVars, loaded, pkg, reads, script, res, installVars>>

\* Lines 99-109: the publish response, or the failure of the request or of
\* the archive read stream feeding it.
PublishResponse ==
    /\ pc = "p_post"
    /\ \/ /\ out' = Append(out, Msg("log", "publish_ok", ServerMessage))
          /\ pc' = "done"
          /\ UNCHANGED <<failedAt, err>>
       \/ \E e \in RequestFailures \cup {TypeError, ArchiveError} :
            Caught("publish", e, "publish_err", ErrText(e))
    /\ UNCHANGED <<ctlVars, diskVars, storeVars, requests, loginVars, loaded,
                   pkg, reads, script, res, installVars>>

(***************************************************************************)
(* search (src/flam.js:116-133)                                             *)
(***************************************************************************)
Queries == {"dragon"}
Result(n, v) == [package_name |-> n, version |-> v, description |-> "d",
                 author |-> "me"]
Results == {Result("foo", "1.2.0"), Result("bar", "1.0.0")}
ResultLists == SeqsUpTo(Results, MaxResults)

\* The line printed for one result (lines 126-128).
ResultLine(r) ==
    Msg("log", "search_line",
        <<r.package_name, r.version, r.description, r.author>>)

\* Mutant of RenderResults: the results are listed last first.
RenderResultsReversed(data) ==
    IF Len(data) = 0
    THEN <<Msg("log", "search_none", "")>>
    ELSE [i \in 1..Len(data) |-> ResultLine(data[Len(data) + 1 - i])]

\* Lines 120-129: what the handler prints for the response data.
RenderResults(data) ==
    IF Len(data) = 0
    THEN <<Msg("log", "search_none", "")>>
    ELSE [i \in 1..Len(data) |-> ResultLine(data[i])]

\* Lines 117-119.
SearchStart ==
    \E q \in Queries :
        /\ Begin("search", q, <<Msg("log", "search_try", q)>>,
                 <<Req("/packages/search", Undefined, q)>>, "s_get")
        /\ UNCHANGED manifest

\* Lines 119-132.
SearchResponse ==
    /\ pc = "s_get"
    /\ \/ \E data \in ResultLists :
            /\ res' = data
            /\ out' = out \o RenderResults(data)
            /\ pc' = "done"
            /\ UNCHANGED <<failedAt, err>>
       \/ \E e \in RequestFailures \cup {TypeError} :
            /\ Caught("search", e, "search_err", ErrText(e))
            /\ UNCHANGED res
    /\ UNCHANGED <<ctlVars, diskVars, storeVars, requests, loginVars, loaded,
                   pkg, reads, script, installVars>>

(***************************************************************************)
(* install (src/flam.js:139-170)                                            *)
(***************************************************************************)
Versions == {"1.2.0"}
\* `${version}` of an undefined version is the text "undefined".
VersionTexts == Versions \cup {"undefined"}
FilePaths == PackageNames \X VersionTexts
\* A download body is a sequence of chunks; chunk i of a body is written i,
\* so the chunks of one body are pairwise distinct.
Bodies == {[i \in 1..k |-> i] : k \in 0..MaxChunks}
\* Content of an archive left by an earlier run.
OldArchive == <<0>>

\* Mutant of DownloadUrl: the download of the latest version is requested,
\* whatever version the details lookup resolved.
DownloadUrlLatest(n, v) == <<n, "latest">>

\* Line 149: the download URL names the package and the resolved version.
DownloadUrl(n, v) == <<n, v>>

\* Line 155: the archive path, `${packageName}-${version}.zip` inside
\* ./flam_modules.
ArchivePath(n, v) == <<n, v>>

\* Lines 140-143.
InstallStart ==
    \E n \in PackageNames :
        /\ Begin("install", n, <<Msg("log", "install_lookup", n)>>,
                 <<Req("/packages/details", Undefined, <<n>>)>>, "i_details")
        /\ UNCHANGED manifest

\* Mutant of InstallDetailsResponse: the installation directory is created
\* before the details lookup is awaited.
InstallDetailsResponseAfterMkdir ==
    /\ pc = "i_details"
    /\ dirExists' = TRUE
    /\ \/ \E v \in VersionTexts :
            /\ version' = v
            /\ out' = Append(out, Msg("log", "install_download", v))
            /\ requests' = Append(requests,
                                  Req("/packages/download", Undefined,
                                      DownloadUrl(arg, v)))
            /\ pc' = "i_download"
            /\ UNCHANGED <<failedAt, err>>
       \/ \E e \in RequestFailures \cup {TypeError} :
            /\ Caught("details", e, "install_err", InstallErrText(e, arg))
            /\ UNCHANGED <<version, requests>>
    /\ UNCHANGED <<ctlVars, configFile, manifest, files, storeVars, loginVars,
                   loaded, pkg, reads, script, res, stream, writer>>

\* Lines 143-150: the details response; on success the download request.
InstallDetailsResponse ==
    /\ pc = "i_details"
    /\ \/ \E v \in VersionTexts :
            /\ version' = v
            /\ out' = Append(out, Msg("log", "install_download", v))
            /\ requests' = Append(requests,
                                  Req("/packages/download", Undefined,
                                      DownloadUrl(arg, v)))
            /\ pc' = "i_download"
            /\ UNCHANGED <<failedAt, err>>
       \/ \E e \in RequestFailures \cup {TypeError} :
            /\ Caught("details", e, "install_err", InstallErrText(e, arg))
            /\ UNCHANGED <<version, requests>>
    /\ UNCHANGED <<ctlVars, diskVars, storeVars, loginVars, loaded, pkg, reads, script, res,
                   stream, writer>>

\* With responseType 'stream' the body of a failed response is a stream, so
\* its error field is never visible to the catch block.
DownloadFailures == {HttpError(""), TransportError}

\* Mutant of InstallDownloadResponse: a failed download is requested once
\* more before the handler gives up.
InstallDownloadResponseRetries ==
    /\ pc = "i_download"
    /\ \/ \E body \in Bodies :
            /\ stream' = [chunks |-> body, pos |-> 0, st |-> "flowing"]
            /\ pc' = "i_ensure"
            /\ UNCHANGED <<out, failedAt, err, requests>>
       \/ /\ Len(requests) < 3
          /\ requests' = Append(requests, requests[Len(requests)])
          /\ UNCHANGED <<pc, out, failedAt, err, stream>>
       \/ \E e \in DownloadFailures :
            /\ Len(requests) >= 3
            /\ Caught("download", e, "install_err", InstallErrText(e, arg))
            /\ UNCHANGED <<stream, requests>>
    /\ UNCHANGED <<ctlVars, diskVars, storeVars, loginVars, loaded,
                   pkg, reads, script, res, version, writer>>

\* Mutant of InstallDownloadResponse: the installation directory is created
\* before the download response is awaited.
InstallDownloadResponseAfterMkdir ==
    /\ pc = "i_download"
    /\ dirExists' = TRUE
    /\ \/ \E body \in Bodies :
            /\ stream' = [chunks |-> body, pos |-> 0, st |-> "flowing"]
            /\ pc' = "i_ensure"
            /\ UNCHANGED <<out, failedAt, err>>
       \/ \E e \in DownloadFailures :
            /\ Caught("download", e, "install_err", InstallErrText(e, arg))
            /\ UNCHANGED stream
    /\ UNCHANGED <<ctlVars, configFile, manifest, files, storeVars, requests,
                   loginVars, loaded, pkg, reads, script, res, version, writer>>

\* Lines 150-154: the download response; on success ensureDir is awaited.
InstallDownloadResponse ==
    /\ pc = "i_download"
    /\ \/ \E body \in Bodies :
            /\ stream' = [chunks |-> body, pos |-> 0, st |-> "flowing"]
            /\ pc' = "i_ensure"
            /\ UNCHANGED <<out, failedAt, err>>
       \/ \E e \in DownloadFailures :
            /\ Caught("download", e, "install_err", InstallErrText(e, arg))
            /\ UNCHANGED stream
    /\ UNCHANGED <<ctlVars, diskVars, storeVars, requests, loginVars, loaded,
                   pkg, reads, script, res, version, writer>>

\* Lines 154-163: ensureDir settles; on success the write stream is created
\* (it opens its file later), the body is piped into it and the handler
\* awaits the writer's finish or error event.
InstallEnsureDir ==
    /\ pc = "i_ensure"
    /\ \/ /\ dirExists' = TRUE
          /\ writer' = [st |-> "opening", path |-> ArchivePath(arg, version)]
          /\ pc' = "i_pipe"
          /\ UNCHANGED <<out, failedAt, err>>
       \/ /\ Caught("ensureDir", LocalError("EACCES: permission denied, mkdir"),
                    "install_err",
                    InstallErrText(LocalError("EACCES: permission denied, mkdir"), arg))
          /\ UNCHANGED <<dirExists, writer>>
    /\ UNCHANGED <<ctlVars, configFile, manifest, files, storeVars, requests,
                   loginVars, loaded, pkg, reads, script, res, version, stream>>

\* Mutant of WriterOpen: the file is opened with flag 'a', created when
\* missing and kept as it is otherwise.
WriterOpenAppend ==
    /\ pc = "i_pipe"
    /\ writer.st = "opening"
    /\ files' = [files EXCEPT ![writer.path] =
                    IF @.st = "file" THEN @ ELSE File(<<>>)]
    /\ writer' = [writer EXCEPT !.st = "open"]
    /\ UNCHANGED <<pc, ctlVars, out, requests, failedAt, err, configFile,
                   manifest, dirExists, storeVars, loginVars, loaded, pkg, reads, script, res,
                   version, stream>>

\* The write stream opens its file with flag 'w': created or truncated.
WriterOpen ==
    /\ pc = "i_pipe"
    /\ writer.st = "opening"
    /\ files' = [files EXCEPT ![writer.path] = File(<<>>)]
    /\ writer' = [writer EXCEPT !.st = "open"]
    /\ UNCHANGED <<pc, ctlVars, out, requests, failedAt, err, configFile,
                   manifest, dirExists, storeVars, loginVars, loaded, pkg, reads, script, res,
                   version, stream>>

\* pipe: one chunk of the body is written to the file.
PipeChunk ==
    /\ pc = "i_pipe"
    /\ writer.st = "open"
    /\ stream.st = "flowing"
    /\ stream.pos < Len(stream.chunks)
    /\ files' = [files EXCEPT ![writer.path] =
                    File(@.data \o <<stream.chunks[stream.pos + 1]>>)]
    /\ stream' = [stream EXCEPT !.pos = @ + 1]
    /\ UNCHANGED <<pc, ctlVars, out, requests, failedAt, err, configFile,
                   manifest, dirExists, storeVars, loginVars, loaded, pkg, reads, script, res,
                   version, writer>>

\* The body ends: pipe ends the writer, which emits finish; the promise of
\* lines 160-163 resolves.
WriterFinish ==
    /\ pc = "i_pipe"
    /\ writer.st = "open"
    /\ stream.st = "flowing"
    /\ stream.pos = Len(stream.chunks)
    /\ stream' = [stream EXCEPT !.st = "ended"]
    /\ writer' = [writer EXCEPT !.st = "finished"]
    /\ pc' = "i_finished"
    /\ UNCHANGED <<ctlVars, out, requests, failedAt, err, diskVars, storeVars,
                   loginVars, loaded, pkg, reads, script, res, version>>

\* Mutant of WriterError: the error event resolves the awaited promise.
WriterErrorResolves ==
    /\ pc = "i_pipe"
    /\ \/ writer.st = "opening"
       \/ writer.st = "open" /\ stream.st = "flowing"
    /\ writer' = [writer EXCEPT !.st = "errored"]
    /\ pc' = "i_finished"
    /\ UNCHANGED <<ctlVars, out, failedAt, err, requests, diskVars, storeVars,
                   loginVars, loaded, pkg, reads, script, res, version, stream>>

\* The writer emits error (its open, a write or its close failed): the
\* promise rejects and the catch block of lines 167-169 runs.
WriterError ==
    /\ pc = "i_pipe"
    /\ \/ writer.st = "opening"
       \/ writer.st = "open" /\ stream.st = "flowing"
    /\ writer' = [writer EXCEPT !.st = "errored"]
    /\ Caught("write", LocalError("ENOSPC: no space left on device, write"),
              "install_err",
              InstallErrText(LocalError("ENOSPC: no space left on device, write"), arg))
    /\ UNCHANGED <<ctlVars, requests, diskVars, storeVars, loginVars, loaded,
                   pkg, reads, script, res, version, stream>>

\* The body stream fails before its end (connection lost).  pipe does not
\* forward a source error to its destination: the writer is neither ended
\* nor destroyed, and the handler listens to the writer only.
SourceError ==
    /\ pc = "i_pipe"
    /\ stream.st = "flowing"
    /\ stream' = [stream EXCEPT !.st = "failed"]
    /\ failedAt' = "stream"
    /\ err' = LocalError("aborted")
    /\ UNCHANGED <<pc, ctlVars, out, requests, diskVars, storeVars, loginVars,
                   loaded, pkg, reads, script, res, version, writer>>

\* The source has failed and the writer idles: no event is pending, the
\* promise of lines 160-163 can no longer settle.
Stalled == pc = "i_pipe" /\ stream.st = "failed" /\ writer.st = "open"

\* With nothing left on the event loop the process exits, the handler still
\* suspended at line 160.
ProcessExit ==
    /\ Stalled
    /\ pc' = "exited"
    /\ UNCHANGED <<ctlVars, out, requests, failedAt, err, diskVars, storeVars,
                   loginVars, loaded, pkg, reads, script, res, installVars>>

\* Line 165: the continuation after the awaited promise resolved.
InstallFinished ==
    /\ pc = "i_finished"
    /\ out' = Append(out, Msg("log", "install_ok", arg))
    /\ pc' = "done"
    /\ UNCHANGED <<ctlVars, requests, failedAt, err, diskVars, storeVars,
                   loginVars, loaded, pkg, reads, script, res, installVars>>

(***************************************************************************)
(* The program.                                                             *)
(***************************************************************************)
ConfigText(key) == File(StringifyConfig(key))
InitConfigs ==
    {Missing, NoAccess, File(<<"{", DQ, "a", "p", "i">>), ConfigText(Undefined),
     ConfigText(Str(<<>>)), ConfigText(Str(<<"a", "a">>))}

NoFiles == [p \in FilePaths |-> Missing]
InitDirs ==
    {[dir |-> FALSE, files |-> NoFiles],
     [dir |-> TRUE, files |-> [NoFiles EXCEPT ![<<"foo", "1.2.0">>] = File(OldArchive)]]}

Init ==
    /\ pc = "idle"
    /\ cmd = ""
    /\ arg = ""
    /\ invocations = 0
    /\ out = <<>>
    /\ requests = <<>>
    /\ escaped = FALSE
    /\ failedAt = ""
    /\ err = NoError
    /\ configFile \in InitConfigs
    /\ manifest = NoManifest
    /\ \E d \in InitDirs : dirExists = d.dir /\ files = d.files
    /\ snap = [config |-> configFile, dir |-> dirExists, files |-> files]
    /\ savepc = "idle"
    /\ wbuf = <<>>
    /\ token = Undefined
    /\ apiKey = Undefined
    /\ loaded = NotLoaded
    /\ pkg = NoPkg
    /\ reads = <<>>
    /\ script \in Scripts
    /\ res = <<>>
    /\ version = ""
    /\ stream = NoStream
    /\ writer = NoWriter

Next ==
    \/ LoginStart
    \/ LoginAuthResponse
    \/ LoginTokenResponse
    \/ SaveOpen
    \/ SaveOpenFail
    \/ SaveWrite
    \/ SaveWriteFail
    \/ LoginSaved
    \/ LoginSaveFailed
    \/ PublishStart
    \/ PublishLoadKey
    \/ PublishReadManifest
    \/ PublishResponse
    \/ SearchStart
    \/ SearchResponse
    \/ InstallStart
    \/ InstallDetailsResponse
    \/ InstallDownloadResponse
    \/ InstallEnsureDir
    \/ WriterOpen
    \/ PipeChunk
    \/ WriterFinish
    \/ WriterError
    \/ SourceError
    \/ ProcessExit
    \/ InstallFinished

Spec == Init /\ [][Next]_vars

(***************************************************************************)
(* The credential store on its own: saveApiKey and loadApiKey called in    *)
(* any order, for every key up to MaxKeyLen characters.                     *)
(***************************************************************************)
StoreIdle == pc = "store" /\ savepc \in {"idle", "done", "failed"}

StoreSave ==
    /\ StoreIdle
    /\ \E k \in AllKeys :
         /\ apiKey' = Str(k)
         /\ saveApiKey(Str(k))
    /\ loaded' = NotLoaded
    /\ UNCHANGED <<pc, cmd, arg, invocations, out, requests, escaped, failedAt,
                   err, snap, diskVars, token, pkg, reads, script, res, installVars>>

StoreLoad ==
    /\ StoreIdle
    /\ loaded' = Completed(loadApiKey(configFile))
    /\ UNCHANGED <<pc, cmd, arg, invocations, out, requests, escaped, failedAt,
                   err, snap, diskVars, storeVars, loginVars, pkg, reads, script, res, installVars>>

StoreInit ==
    /\ pc = "store"
    /\ cmd = ""
    /\ arg = ""
    /\ invocations = 0
    /\ out = <<>>
    /\ requests = <<>>
    /\ escaped = FALSE
    /\ failedAt = ""
    /\ err = NoError
    /\ configFile \in InitConfigs \cup {File(<<"n", "u", "l", "l">>)}
    /\ manifest = NoManifest
    /\ dirExists = FALSE
    /\ files = NoFiles
    /\ snap = [config |-> configFile, dir |-> dirExists, files |-> files]
    /\ savepc = "idle"
    /\ wbuf = <<>>
    /\ token = Undefined
    /\ apiKey = Undefined
    /\ loaded = NotLoaded
    /\ pkg = NoPkg
    /\ reads = <<>>
    /\ script = "flam.js"
    /\ res = <<>>
    /\ version = ""
    /\ stream = NoStream
    /\ writer = NoWriter

StoreNext ==
    \/ StoreSave
    \/ StoreLoad
    \/ SaveOpen
    \/ SaveOpenFail
    \/ SaveWrite
    \/ SaveWriteFail

StoreSpec == StoreInit /\ [][StoreNext]_vars

(***************************************************************************)
(* Properties.                                                              *)
(***************************************************************************)
\* The configuration file yields no key: it is missing, unreadable or
\* malformed, or its apiKey is absent or empty.
KeyAbsent(f) ==
    LET c == readJson(f)
    IN  c.threw \/ c.isNull \/ c.apiKey.t # "str" \/ c.apiKey.s = <<>>

\* The credential a configuration file holds, Null when it yields no key.
Credential(f) == IF KeyAbsent(f) THEN Null ELSE loadApiKey(f).val

DownloadRequested ==
    \E i \in 1..Len(requests) : requests[i].ep = "/packages/download"

ErrorKinds == {"login_err", "publish_err", "search_err", "install_err"}
SuccessKinds == {"login_ok", "publish_ok", "search_none", "search_line",
                 "install_ok"}

\* C1: a publish invocation whose credential store yields no key sends no
\* request, stops at the credential guard and prints exactly the
\* not-authenticated message.
C1_NoCredentialPublishGuard ==
    (cmd = "publish" /\ KeyAbsent(snap.config)) =>
        /\ requests = <<>>
        /\ pc \in {"p_load", "done"}
        /\ pc = "done" => out = <<Msg("error", "not_auth", "")>>

C1_Witness ==
    /\ cmd = "publish"
    /\ pc = "done"
    /\ snap.config = ConfigText(Str(<<>>))
    /\ HasMsg("not_auth")

\* C2: a login invocation that failed at /auth/login or at /user/api-token
\* never called saveApiKey, and the configuration file is what it was when
\* the invocation started.
C2_LoginFailureKeepsStore ==
    (cmd = "login" /\ failedAt \in {"login", "api-token"}) =>
        /\ savepc = "idle"
        /\ configFile = snap.config
        /\ ~HasMsg("login_ok")

C2_Witness ==
    /\ cmd = "login"
    /\ failedAt = "api-token"
    /\ pc = "done"
    /\ ~KeyAbsent(snap.config)

\* C3: the install success message is printed only once the writer's finish
\* event has fired, and a writer error ends the invocation with the
\* installation-failure message and without the success message.
C3_InstallCompletionOrdering ==
    /\ HasMsg("install_ok") => writer.st = "finished"
    /\ writer.st = "errored" =>
          /\ pc = "done"
          /\ HasMsg("install_err")
          /\ ~HasMsg("install_ok")

C3_Witness ==
    /\ cmd = "install"
    /\ writer.st = "errored"
    /\ stream.pos > 0
    /\ HasMsg("install_err")

\* C4: an install whose details lookup failed has created neither the
\* installation directory nor any file, has opened no write stream and has
\* sent no download request.
C4_InstallUnknownPackage ==
    (cmd = "install" /\ failedAt = "details") =>
        /\ dirExists = snap.dir
        /\ files = snap.files
        /\ writer.st = "none"
        /\ ~DownloadRequested

C4_Witness ==
    /\ cmd = "install"
    /\ failedAt = "details"
    /\ pc = "done"
    /\ ~dirExists

\* C5: a publish invocation with a usable credential and no readable,
\* parseable package.json sends no request and prints exactly the local
\* manifest error.
C5_ManifestMissingPublishGuard ==
    (cmd = "publish" /\ ~KeyAbsent(snap.config) /\ manifest.st # "object") =>
        /\ requests = <<>>
        /\ pc \in {"p_load", "p_manifest", "done"}
        /\ pc = "done" => out = <<Msg("error", "manifest_err", "")>>

C5_Witness ==
    /\ cmd = "publish"
    /\ pc = "done"
    /\ manifest.st = "malformed"
    /\ HasMsg("manifest_err")

\* C6: loadApiKey never raises; called after a completed saveApiKey(k) it
\* returns k; called on a missing, unreadable or malformed file it returns
\* null.
C6_CredentialRoundTrip ==
    /\ ~loaded.threw
    /\ (loaded.called /\ savepc = "done") => loaded.val = apiKey
    /\ (loaded.called /\ readJson(configFile).threw) => loaded.val = Null

C6_Witness ==
    /\ loaded.called
    /\ savepc = "done"
    /\ apiKey = Str(<<BS, DQ>>)
    /\ loaded.val = apiKey

\* C7 (as claimed): throughout a login invocation the key retrievable from
\* the store is the one retrievable before the invocation or the key being
\* saved, also while and after a save that fails part-way.
C7_AtomicReplacement ==
    cmd = "login" =>
        Credential(configFile) \in {Credential(snap.config), Credential(ConfigText(apiKey))}

\* C8 (as claimed): no error leaves a handler, and an invocation that failed
\* at some step ends with exactly one error message and no success message.
C8_ErrorContainment ==
    /\ ~escaped
    /\ (pc \in {"done", "exited"} /\ failedAt # "") =>
          /\ CountCh("error") = 1
          /\ \A i \in 1..Len(out) : out[i].kind \notin SuccessKinds

\* C9 (as claimed): no process ends with its handler still suspended, and an
\* install invocation that has ended has printed the success message or the
\* installation-failure message.
C9_FlowTermination ==
    /\ pc # "exited"
    /\ (cmd = "install" /\ pc = "done") =>
          (HasMsg("install_ok") \/ HasMsg("install_err"))

\* C10 (as claimed): every error message of a flow carries the server's
\* error field when the response has one, and the error's own message
\* otherwise.
C10_ErrorMessageSelection ==
    \A i \in 1..Len(out) :
        out[i].kind \in ErrorKinds => out[i].text = ErrText(err)

\* C11 (as claimed): an install invocation that ended without the writer's
\* finish event leaves every file of the installation directory as it was
\* when the invocation started: no partial archive under the final name, and
\* no archive of an earlier install truncated or altered.
C11_AtomicLocalPlacement ==
    (cmd = "install" /\ pc \in {"done", "exited"} /\ writer.st # "finished") =>
        files = snap.files

\* The download requests of the current invocation.
DownloadRequests ==
    SelectSeq(requests, LAMBDA r : r.ep = "/packages/download")

\* C12: an install of n that reports success, its details lookup having
\* resolved version v, has requested the download once and for exactly
\* (n, v), has left a file under n-v.zip, and has created or changed no
\* other file of the installation directory.
C12_InstallCreatesExactlyOneFile ==
    (cmd = "install" /\ HasMsg("install_ok")) =>
        /\ HasMsg("install_download")
        /\ \A i \in 1..Len(out) :
              out[i].kind = "install_download" => out[i].text = version
        /\ Len(DownloadRequests) = 1
        /\ DownloadRequests[1].params = <<arg, version>>
        /\ dirExists
        /\ files[<<arg, version>>].st = "file"
        /\ \A p \in FilePaths :
              p # <<arg, version>> => files[p] = snap.files[p]

C12_Witness ==
    /\ cmd = "install"
    /\ HasMsg("install_ok")
    /\ arg = "bar"
    /\ version \in Versions
    /\ ~snap.dir
    /\ snap.files[<<"foo", "1.2.0">>].st = "missing"
    /\ files[<<"bar", version>>].data # <<>>

\* C13: whenever an install reports success, the installed file holds the
\* chunks of the download body, all of them, once each, in the order
\* received and nothing else, for the empty body as for any other.
C13_StreamingCorrectness ==
    (cmd = "install" /\ HasMsg("install_ok")) =>
        /\ stream.st = "ended"
        /\ stream.pos = Len(stream.chunks)
        /\ files[writer.path] = File(stream.chunks)

C13_Witness ==
    /\ cmd = "install"
    /\ HasMsg("install_ok")
    /\ Len(stream.chunks) = MaxChunks
    /\ snap.files[writer.path] = File(OldArchive)
    /\ files[writer.path] = File(stream.chunks)

\* The kinds of the messages printed so far, in order.
Kinds == [i \in 1..Len(out) |-> out[i].kind]

\* C14: a search that received its response has printed, after the
\* announcement, the no-results message alone when the response is empty,
\* and otherwise one line per result and no no-results message, the i-th
\* line showing the name, version, description and author of the i-th
\* result of the response.
C14_SearchRendering ==
    (cmd = "search" /\ pc = "done" /\ failedAt = "") =>
        /\ Kinds[1] = "search_try"
        /\ IF Len(res) = 0
           THEN Kinds = <<"search_try", "search_none">>
           ELSE /\ Len(out) = Len(res) + 1
                /\ \A i \in 1..Len(res) :
                      /\ out[i + 1].kind = "search_line"
                      /\ out[i + 1].ch = "log"
                      /\ out[i + 1].text = <<res[i].package_name, res[i].version,
                                             res[i].description, res[i].author>>

C14_Witness ==
    /\ cmd = "search"
    /\ pc = "done"
    /\ failedAt = ""
    /\ Len(res) = 2
    /\ res[1] # res[2]
    /\ Kinds = <<"search_try", "search_line", "search_line">>

\* C15 (as claimed): every publish request sent carries the name, the
\* version and the description of the manifest, each in its own field, and
\* the credential loaded from the store as bearer.
C15_PublishMetadataFidelity ==
    \A i \in 1..Len(requests) :
        requests[i].ep = "/packages/publish" =>
            /\ requests[i].params.packageName = manifest.name
            /\ requests[i].params.version = manifest.version
            /\ requests[i].params.description = manifest.description
            /\ requests[i].bearer = loadApiKey(snap.config).val

\* The manifest parses to an object that lacks a metadata field.
ManifestLacksField ==
    /\ manifest.st = "object"
    /\ Absent \in {manifest.name, manifest.version, manifest.description}

\* C16 (as claimed): a publish invocation whose package.json parses but
\* lacks name, version or description sends no request and ends with the
\* local manifest error.
C16_MalformedManifestPublishGuard ==
    (cmd = "publish" /\ ManifestLacksField) =>
        /\ requests = <<>>
        /\ (pc = "done" /\ ~KeyAbsent(snap.config)) =>
              out = <<Msg("error", "manifest_err", "")>>

\* The steps of the handlers that await a request, and the endpoint each
\* one requests.
RequestSteps ==
    {"login", "api-token", "publish", "search", "details", "download"}
EndpointOf(step) ==
    CASE step = "login" -> "/auth/login"
      [] step = "api-token" -> "/user/api-token"
      [] step = "publish" -> "/packages/publish"
      [] step = "search" -> "/packages/search"
      [] step = "details" -> "/packages/details"
      [] step = "download" -> "/packages/download"

\* C17: within one invocation no endpoint is requested twice, and an
\* invocation one of whose requests failed has ended with the failed
\* request as its last one.
C17_NoAutomaticRetry ==
    /\ \A i, j \in 1..Len(requests) :
          requests[i].ep = requests[j].ep => i = j
    /\ failedAt \in RequestSteps =>
          /\ pc = "done"
          /\ requests # <<>>
          /\ requests[Len(requests)].ep = EndpointOf(failedAt)

C17_Witness ==
    /\ cmd = "install"
    /\ failedAt = "download"
    /\ pc = "done"
    /\ Len(requests) = 2
    /\ err = TransportError

\* C18: throughout a publish, search or install invocation, whether it
\* succeeds or fails, the Credential Store is the one the invocation found
\* and no save has been started; throughout a publish invocation the
\* installation directory and its files are as the invocation found them.
C18_CredentialStoreFrame ==
    /\ cmd \in {"publish", "search", "install"} =>
          /\ configFile = snap.config
          /\ savepc = "idle"
          /\ wbuf = <<>>
    /\ cmd = "publish" =>
          /\ dirExists = snap.dir
          /\ files = snap.files

C18_Witness ==
    /\ cmd = "publish"
    /\ pc = "done"
    /\ failedAt = "publish"
    /\ ~KeyAbsent(configFile)
    /\ invocations = 2
    /\ snap.files[<<"foo", "1.2.0">>].st = "file"

\* C19 (as claimed): every request an invocation sends goes through a client
\* of a process set up to prefer or to force IPv4: the process-wide result
\* order is ipv4first, or the request's agent connects on family 4.
C19_TransportRouting ==
    \A i \in 1..Len(requests) :
        requests[i].dns = "ipv4first" \/ requests[i].agent = "family 4"

\* s is an initial part of t.
IsPrefix(s, t) == Len(s) <= Len(t) /\ s = SubSeq(t, 1, Len(s))

Opened(f) == \E i \in 1..Len(reads) : reads[i] = f

\* C20: a publish invocation reads the credential store first, package.json
\* second and the archive last; it reads package.json only with a usable
\* credential, and opens the archive and sends its request only with a
\* usable credential and a parsed manifest.  With neither a credential nor
\* a manifest it ends with the not-authenticated message alone, package.json
\* unread.
C20_PublishPreconditionOrder ==
    cmd = "publish" =>
        /\ IsPrefix(reads, <<"config", "package.json", arg>>)
        /\ Opened("package.json") => ~KeyAbsent(snap.config)
        /\ Opened(arg) => (~KeyAbsent(snap.config) /\ manifest.st = "object")
        /\ requests # <<>> => Opened(arg)
        /\ HasMsg("manifest_err") => Opened("package.json")
        /\ (pc = "done" /\ KeyAbsent(snap.config) /\ manifest.st # "object") =>
              /\ out = <<Msg("error", "not_auth", "")>>
              /\ reads = <<"config">>

C20_Witness ==
    /\ cmd = "publish"
    /\ pc = "done"
    /\ KeyAbsent(snap.config)
    /\ manifest.st = "missing"
    /\ HasMsg("not_auth")
    /\ reads = <<"config">>

\* C21: in a login invocation the /user/api-token request is sent only
\* after the /auth/login request succeeded, as the second request and with
\* the token of that response as bearer; saveApiKey is called and the
\* configuration file is written only after the /user/api-token request
\* succeeded, and what is written is the text of the key of that response;
\* the success message is printed only after the save completed.
C21_LoginHandshakeOrder ==
    cmd = "login" =>
        /\ requests[1].ep = "/auth/login"
        /\ Len(requests) <= 2
        /\ pc = "l_login" => Len(requests) = 1
        /\ Len(requests) = 2 =>
              /\ failedAt # "login"
              /\ requests[2].ep = "/user/api-token"
              /\ requests[2].bearer = token
        /\ (savepc # "idle" \/ configFile # snap.config) =>
              /\ Len(requests) = 2
              /\ failedAt \notin {"login", "api-token"}
              /\ pc \in {"l_save", "done"}
        /\ configFile # snap.config =>
              /\ configFile.st = "file"
              /\ configFile.data \o wbuf = StringifyConfig(apiKey)
        /\ HasMsg("login_ok") =>
              /\ savepc = "done"
              /\ configFile = ConfigText(apiKey)
              /\ failedAt = ""

C21_Witness ==
    /\ cmd = "login"
    /\ HasMsg("login_ok")
    /\ token \in Tokens
    /\ requests[2].bearer = token
    /\ apiKey = Str(<<"a">>)
    /\ snap.config = ConfigText(Str(<<"a", "a">>))
    /\ configFile = ConfigText(apiKey)

\* C22 (as claimed): whenever a login invocation has printed the success
\* message, loadApiKey on the configuration file returns the key of the
\* /user/api-token response, and that key passes the credential guard of
\* publish, whatever the 2xx responses held.
C22_LoginSuccessUsableCredential ==
    (cmd = "login" /\ HasMsg("login_ok")) =>
        LET r == loadApiKey(configFile)
        IN  /\ ~r.threw
            /\ r.val = apiKey
            /\ Truthy(r.val)

\* C23: an install invocation that has not yet obtained its download
\* response, or whose details or download request failed, has created no
\* directory, created or changed no file and created no write stream; a
\* write stream exists, and a file differs from what the invocation found,
\* only once the installation directory exists.
C23_InstallFilesystemAfterDownload ==
    cmd = "install" =>
        /\ (pc \in {"i_details", "i_download"}
              \/ failedAt \in {"details", "download"}) =>
              /\ dirExists = snap.dir
              /\ files = snap.files
              /\ writer.st = "none"
        /\ pc = "i_ensure" => (files = snap.files /\ writer.st = "none")
        /\ failedAt = "ensureDir" => (files = snap.files /\ writer.st = "none")
        /\ writer.st # "none" => dirExists
        /\ files # snap.files =>
              (dirExists /\ writer.st \notin {"none", "opening"})

C23_Witness ==
    /\ cmd = "install"
    /\ failedAt = "download"
    /\ pc = "done"
    /\ version \in Versions
    /\ Len(requests) = 2
    /\ ~snap.dir
    /\ ~dirExists
    /\ files = NoFiles
====
